---- MODULE Spec2Model ----
(***************************************************************************)
(* Model of meta/lib/oeqa/selftest/cases/clang.py: the two test workflows  *)
(* of LLVMClangLLDNativeTests and the two timed steps they are built from. *)
(*                                                                         *)
(* The external collaborators (bitbake, get_bb_var, runqemu, unfs_server,  *)
(* qemu.run, time.time, the logger) are the environment: every outcome     *)
(* they can hand back is a nondeterministic choice, and what the program   *)
(* asked of them is recorded in bb, cmds, res and log.                     *)
(***************************************************************************)
EXTENDS Integers, Sequences, FiniteSets, TLC

\* ------------------------------------------------------------------ bounds
\* time.time() is a float; the model counts it in ticks, TicksPerSecond to a
\* second, and lets it run from 0 to MaxTick.
TicksPerSecond == 2
MaxTick == 4

\* What the environment can hand back.
Causes == {"e1", "e2"}            \* the exception a failing bitbake raises
Statuses == {0, 1, 255}           \* exit status of a command run in the VM
Outputs == {"out1", "out2"}       \* captured output of a command run in the VM

\* ------------------------------------------------------------- data tables
\* The (recipe, task) pairs test_native_llvm_clang_lld_lit_suites runs, and the
\* format of the summary line of each.
NativeSteps ==
    << [recipe |-> "llvm-native",  task |-> "check_llvm",
        summary |-> "  llvm-native  -c check_llvm  : %d s"],
       [recipe |-> "clang-native", task |-> "check_clang",
        summary |-> "  clang-native -c check_clang : %d s"],
       [recipe |-> "lld-native",   task |-> "check_lld",
        summary |-> "  lld-native   -c check_lld   : %d s"] >>

\* The recipes test_target_llvm_clang_lld_builds builds, and the format of the
\* summary line of each.
TargetBuilds ==
    << [recipe |-> "llvm",  summary |-> "  llvm  build : %d s"],
       [recipe |-> "clang", summary |-> "  clang build : %d s"],
       [recipe |-> "lld",   summary |-> "  lld   build : %d s"],
       [recipe |-> "core-image-minimal",
        summary |-> "  core-image-minimal build : %d s"] >>

\* ------------------------------------------------------------------- state
VARIABLES
    wf,             \* which test method runs: "native" or "target"
    pc,             \* the position of the single thread of control
    step,           \* index of the timed step being run (1-based)
    now,            \* the last instant time.time() returned, in ticks
    total_start,    \* local total_start of the test method
    start_time,     \* local start_time of the timed step
    passed,         \* local passed of the timed step
    exc,            \* the exception bitbake raised in the timed step, or "none"
    duration,       \* local duration of the timed step
    log_at_start,   \* how many lines were logged when start_time was taken
    log_at_end,     \* how many lines were logged when the end instant was taken
    durations,      \* the durations returned so far (llvm_duration, ...)
    total_duration, \* local total_duration of the test method, -1 before it is set
    stack,          \* the ExitStack's registered exit callbacks, oldest first
    cmdi,           \* index into RemoteCmds of the command being run
    status,         \* local status
    output,         \* local output
    failure,        \* the exception propagating / raised to the caller
    log,            \* what was written through self.logger, in order
    bb,             \* the bitbake invocations issued so far, with their outcome
    cmds,           \* the qemu.run commands issued so far, with their exit status
    captured,       \* the output the last qemu.run captured and returned
    res             \* acquisitions and releases of the VM and the export, in order

vars == << wf, pc, step, now, total_start, start_time, passed, exc, duration,
           log_at_start, log_at_end,
           durations, total_duration, stack, cmdi, status, output, failure,
           log, bb, cmds, captured, res >>

timerVars == << now, total_start, start_time, duration, durations, total_duration,
               log_at_start, log_at_end >>
stepVars  == << step, passed, exc >>
scopeVars == << stack, cmdi, status, output, cmds, captured, res >>

\* ----------------------------------------------------------------- helpers
NoFailure == [type |-> "none", msg |-> << >>]

\* One logger call: level, the format string, its string arguments and its %d
\* argument (-1 when the format has none). The source's em dash and arrow are
\* written - and -> in the strings of the model.
LogLine(level, fmt, args, secs) ==
    [level |-> level, fmt |-> fmt, args |-> args, secs |-> secs]

Info(fmt) == LogLine("info", fmt, << >>, -1)

\* Rounding up instead of truncating.
IntSeconds_ceil(ticks) ==
    (ticks + TicksPerSecond - 1) \div TicksPerSecond

\* Python's int() of a float difference, given in ticks: truncation toward 0.
IntSeconds(ticks) ==
    IF ticks >= 0 THEN ticks \div TicksPerSecond
                  ELSE -((-ticks) \div TicksPerSecond)

\* The instants a call of time.time() can return after `now`.
Instants == now..MaxTick

RECURSIVE SumSeq(_)
SumSeq(s) == IF s = << >> THEN 0 ELSE Head(s) + SumSeq(Tail(s))

Range(s) == {s[i] : i \in 1..Len(s)}

\* --------------------------------------------------------------------- Init
Init ==
    /\ wf \in {"native", "target"}
    /\ pc = "start"
    /\ step = 0
    /\ now = 0
    /\ total_start = 0
    /\ start_time = 0
    /\ passed = FALSE
    /\ exc = "none"
    /\ duration = 0
    /\ log_at_start = 0
    /\ log_at_end = 0
    /\ durations = << >>
    /\ total_duration = -1
    /\ stack = << >>
    /\ cmdi = 0
    /\ status = 0
    /\ output = "none"
    /\ failure = NoFailure
    /\ log = << >>
    /\ bb = << >>
    /\ cmds = << >>
    /\ captured = "none"
    /\ res = << >>

\* ---------------------------------------------------- run_native_check_task
\* Lines 24 and 25 swapped: start_time is taken before the "Running" line is
\* logged.
run_native_check_task_begin_early ==
    /\ pc = "native_step"
    /\ \E t \in Instants :
         /\ now' = t
         /\ start_time' = t
    /\ log_at_start' = Len(log)
    /\ log' = Append(log, LogLine("info", "Running bitbake %s -c %s",
                        << NativeSteps[step].recipe, NativeSteps[step].task >>, -1))
    /\ pc' = "native_bitbake"
    /\ UNCHANGED << wf, total_start, duration, durations, total_duration, log_at_end,
                    stepVars, scopeVars, failure, bb >>

\* Lines 24-25: the "Running" line, then start_time = time.time().
run_native_check_task_begin ==
    /\ pc = "native_step"
    /\ \E t \in Instants :
         /\ now' = t
         /\ start_time' = t
    /\ log_at_start' = Len(log) + 1
    /\ log' = Append(log, LogLine("info", "Running bitbake %s -c %s",
                        << NativeSteps[step].recipe, NativeSteps[step].task >>, -1))
    /\ pc' = "native_bitbake"
    /\ UNCHANGED << wf, total_start, duration, durations, total_duration, log_at_end,
                    stepVars, scopeVars, failure, bb >>

\* Lines 26-29: bitbake(f"{recipe} -c {task}") returns (passed = True) or raises
\* an Exception e, which the except clause catches.
run_native_check_task_bitbake ==
    /\ pc = "native_bitbake"
    /\ \E e \in Causes \cup {"none"} :
         /\ bb' = Append(bb, [cmd |-> << NativeSteps[step].recipe, "-c",
                                         NativeSteps[step].task >>,
                              ok |-> (e = "none")])
         /\ exc' = e
         /\ IF e = "none"
              THEN passed' = TRUE     /\ pc' = "native_finally"
              ELSE UNCHANGED passed /\ pc' = "native_except"
    /\ UNCHANGED << wf, step, timerVars, scopeVars, failure, log >>

\* The except clause without line 30: the failure is swallowed unlogged.
run_native_check_task_except_silent ==
    /\ pc = "native_except"
    /\ passed' = FALSE
    /\ pc' = "native_finally"
    /\ UNCHANGED << wf, step, exc, timerVars, scopeVars, failure, log, bb >>

\* Lines 30-31: the except clause logs the error with e and sets passed = False.
run_native_check_task_except ==
    /\ pc = "native_except"
    /\ log' = Append(log, LogLine("error", "bitbake %s -c %s FAILED: %s",
                        << NativeSteps[step].recipe, NativeSteps[step].task, exc >>, -1))
    /\ passed' = FALSE
    /\ pc' = "native_finally"
    /\ UNCHANGED << wf, step, exc, timerVars, scopeVars, failure, bb >>

\* Lines 33-35: the finally clause computes the duration and logs the status line.
run_native_check_task_finally ==
    /\ pc = "native_finally"
    /\ \E t \in Instants :
         /\ now' = t
         /\ log_at_end' = Len(log)
         /\ duration' = IntSeconds(t - start_time)
         /\ log' = Append(log, LogLine("info", "%s -c %s -> %s (%d seconds)",
                        << NativeSteps[step].recipe, NativeSteps[step].task,
                           IF passed THEN "PASSED" ELSE "FAILED" >>,
                        IntSeconds(t - start_time)))
    /\ pc' = "native_return"
    /\ UNCHANGED << wf, total_start, start_time, durations, total_duration, log_at_start,
                    stepVars, scopeVars, failure, bb >>

\* run_native_check_task without lines 37-38: a failed step returns its duration.
run_native_check_task_return_noraise ==
    /\ pc = "native_return"
    /\ durations' = Append(durations, duration)
    /\ IF step < Len(NativeSteps)
         THEN step' = step + 1 /\ pc' = "native_step"
         ELSE step' = step     /\ pc' = "native_summary"
    /\ UNCHANGED << wf, now, total_start, start_time, duration, total_duration, log_at_start, log_at_end,
                    passed, exc, scopeVars, failure, log, bb >>

\* Lines 37-39: raise AssertionError naming recipe and task, or return duration
\* to the caller (lines 69-71), which goes on to the next step.
run_native_check_task_return ==
    /\ pc = "native_return"
    /\ IF ~passed
         THEN /\ failure' = [type |-> "AssertionError",
                             msg |-> << NativeSteps[step].recipe, " -c ",
                                        NativeSteps[step].task,
                                        " failed - see log above" >>]
              /\ pc' = "raised"
              /\ UNCHANGED << durations, step >>
         ELSE /\ durations' = Append(durations, duration)
              /\ IF step < Len(NativeSteps)
                   THEN step' = step + 1 /\ pc' = "native_step"
                   ELSE step' = step     /\ pc' = "native_summary"
              /\ UNCHANGED failure
    /\ UNCHANGED << wf, now, total_start, start_time, duration, total_duration, log_at_start, log_at_end,
                    passed, exc, scopeVars, log, bb >>

\* ------------------------------------- test_native_llvm_clang_lld_lit_suites
\* Lines 64-68: the banner, then total_start = time.time().
test_native_begin ==
    /\ pc = "start"
    /\ wf = "native"
    /\ log' = log \o << Info("======"),
                        Info("STARTING LLVM + CLANG + LLD NATIVE LIT TEST SUITES"),
                        Info("======") >>
    /\ \E t \in Instants :
         /\ now' = t
         /\ total_start' = t
    /\ step' = 1
    /\ pc' = "native_step"
    /\ UNCHANGED << wf, start_time, duration, durations, total_duration, log_at_start, log_at_end,
                    passed, exc, scopeVars, failure, bb >>

\* Lines 72-82: total_duration, the summary table, assertTrue(True, ...).
test_native_end ==
    /\ pc = "native_summary"
    /\ \E t \in Instants :
         /\ now' = t
         /\ total_duration' = IntSeconds(t - total_start)
         /\ log' = log \o
              << Info("======"),
                 Info("ALL LIT TEST SUITES COMPLETED SUCCESSFULLY"),
                 LogLine("info", NativeSteps[1].summary, << >>, durations[1]),
                 LogLine("info", NativeSteps[2].summary, << >>, durations[2]),
                 LogLine("info", NativeSteps[3].summary, << >>, durations[3]),
                 LogLine("info", "  TOTAL EXECUTION TIME        : %d s", << >>,
                         IntSeconds(t - total_start)),
                 Info("======") >>
    /\ pc' = "done"
    /\ UNCHANGED << wf, log_at_start, log_at_end, total_start, start_time, duration, durations,
                    stepVars, scopeVars, failure, bb >>

NativeNext ==
    \/ test_native_begin
    \/ run_native_check_task_begin
    \/ run_native_check_task_bitbake
    \/ run_native_check_task_except
    \/ run_native_check_task_finally
    \/ run_native_check_task_return
    \/ test_native_end

\* --------------------------------------------------------- run_target_build
\* Lines 43-44: the "Running" line, then start_time = time.time().
run_target_build_begin ==
    /\ pc = "build_step"
    /\ \E t \in Instants :
         /\ now' = t
         /\ start_time' = t
    /\ log_at_start' = Len(log) + 1
    /\ log' = Append(log, LogLine("info", "Running bitbake %s",
                        << TargetBuilds[step].recipe >>, -1))
    /\ pc' = "build_bitbake"
    /\ UNCHANGED << wf, total_start, duration, durations, total_duration, log_at_end,
                    stepVars, scopeVars, failure, bb >>

\* Lines 45-48: bitbake(recipe) returns (passed = True) or raises an Exception e,
\* which the except clause catches.
run_target_build_bitbake ==
    /\ pc = "build_bitbake"
    /\ \E e \in Causes \cup {"none"} :
         /\ bb' = Append(bb, [cmd |-> << TargetBuilds[step].recipe >>,
                              ok |-> (e = "none")])
         /\ exc' = e
         /\ IF e = "none"
              THEN passed' = TRUE     /\ pc' = "build_finally"
              ELSE UNCHANGED passed /\ pc' = "build_except"
    /\ UNCHANGED << wf, step, timerVars, scopeVars, failure, log >>

\* Lines 49-50: the except clause logs the error with e and sets passed = False.
run_target_build_except ==
    /\ pc = "build_except"
    /\ log' = Append(log, LogLine("error", "bitbake %s FAILED: %s",
                        << TargetBuilds[step].recipe, exc >>, -1))
    /\ passed' = FALSE
    /\ pc' = "build_finally"
    /\ UNCHANGED << wf, step, exc, timerVars, scopeVars, failure, bb >>

\* Lines 52-54: the finally clause computes the duration and logs the status line.
run_target_build_finally ==
    /\ pc = "build_finally"
    /\ \E t \in Instants :
         /\ now' = t
         /\ log_at_end' = Len(log)
         /\ duration' = IntSeconds(t - start_time)
         /\ log' = Append(log, LogLine("info", "%s -> %s (%d seconds)",
                        << TargetBuilds[step].recipe,
                           IF passed THEN "PASSED" ELSE "FAILED" >>,
                        IntSeconds(t - start_time)))
    /\ pc' = "build_return"
    /\ UNCHANGED << wf, total_start, start_time, durations, total_duration, log_at_start,
                    stepVars, scopeVars, failure, bb >>

\* run_target_build without lines 56-57: a failed build returns its duration.
run_target_build_return_noraise ==
    /\ pc = "build_return"
    /\ durations' = Append(durations, duration)
    /\ IF step < Len(TargetBuilds)
         THEN step' = step + 1 /\ pc' = "build_step"
         ELSE step' = step     /\ pc' = "build_summary"
    /\ UNCHANGED << wf, now, total_start, start_time, duration, total_duration, log_at_start, log_at_end,
                    passed, exc, scopeVars, failure, log, bb >>

\* Lines 56-58: raise AssertionError naming the recipe, or return duration to the
\* caller (lines 93-96), which goes on to the next build.
run_target_build_return ==
    /\ pc = "build_return"
    /\ IF ~passed
         THEN /\ failure' = [type |-> "AssertionError",
                             msg |-> << TargetBuilds[step].recipe,
                                        " build failed - see log above" >>]
              /\ pc' = "raised"
              /\ UNCHANGED << durations, step >>
         ELSE /\ durations' = Append(durations, duration)
              /\ IF step < Len(TargetBuilds)
                   THEN step' = step + 1 /\ pc' = "build_step"
                   ELSE step' = step     /\ pc' = "build_summary"
              /\ UNCHANGED failure
    /\ UNCHANGED << wf, now, total_start, start_time, duration, total_duration, log_at_start, log_at_end,
                    passed, exc, scopeVars, log, bb >>

\* ----------------------------------------- test_target_llvm_clang_lld_builds
\* Lines 88-92: the banner, then total_start = time.time().
test_target_begin ==
    /\ pc = "start"
    /\ wf = "target"
    /\ log' = log \o << Info("======"),
                        Info("STARTING TARGET LLVM/CLANG/LLD BUILDS"),
                        Info("======") >>
    /\ \E t \in Instants :
         /\ now' = t
         /\ total_start' = t
    /\ step' = 1
    /\ pc' = "build_step"
    /\ UNCHANGED << wf, start_time, duration, durations, total_duration, log_at_start, log_at_end,
                    passed, exc, scopeVars, failure, bb >>

\* Lines 97-106: total_duration and the summary table of the builds; the with
\* statement of line 109 is entered next.
test_target_builds_done ==
    /\ pc = "build_summary"
    /\ \E t \in Instants :
         /\ now' = t
         /\ total_duration' = IntSeconds(t - total_start)
         /\ log' = log \o
              << Info("======"),
                 Info("ALL TARGET BUILDS COMPLETED SUCCESSFULLY"),
                 LogLine("info", TargetBuilds[1].summary, << >>, durations[1]),
                 LogLine("info", TargetBuilds[2].summary, << >>, durations[2]),
                 LogLine("info", TargetBuilds[3].summary, << >>, durations[3]),
                 LogLine("info", TargetBuilds[4].summary, << >>, durations[4]),
                 LogLine("info", "  TOTAL BUILD TIME : %d s", << >>,
                         IntSeconds(t - total_start)),
                 Info("======") >>
    /\ pc' = "get_bb_var"
    /\ UNCHANGED << wf, log_at_start, log_at_end, total_start, start_time, duration, durations,
                    stepVars, scopeVars, failure, bb >>

\* One call the with block makes on the environment: op on what, and whether it
\* returned (ok) or raised.
Call(op, what, ok) == [op |-> op, what |-> what, ok |-> ok]

\* The exception an environment call raises.
EnvError(op, what) == [type |-> "Exception", msg |-> << op, " ", what, " failed" >>]

\* Line 110: tmpdir = get_bb_var("TMPDIR"), inside the with block; it returns or
\* raises, and a raise leaves the with block.
test_target_get_bb_var ==
    /\ pc = "get_bb_var"
    /\ \E ok \in BOOLEAN :
         /\ res' = Append(res, Call("lookup", "TMPDIR", ok))
         /\ IF ok THEN pc' = "runqemu" /\ UNCHANGED failure
                  ELSE pc' = "exit_stack" /\ failure' = EnvError("lookup", "TMPDIR")
    /\ UNCHANGED << wf, timerVars, stepVars, stack, cmdi, status, output, cmds, captured,
                    log, bb >>

\* Line 111: qemu = s.enter_context(runqemu(...)): the VM is started and its exit
\* callback registered, or runqemu raises and nothing is registered.
test_target_runqemu ==
    /\ pc = "runqemu"
    /\ \E ok \in BOOLEAN :
         /\ res' = Append(res, Call("acquire", "vm", ok))
         /\ IF ok THEN /\ stack' = Append(stack, "vm")
                       /\ pc' = "unfs_server"
                       /\ UNCHANGED failure
                  ELSE /\ pc' = "exit_stack"
                       /\ failure' = EnvError("acquire", "vm")
                       /\ UNCHANGED stack
    /\ UNCHANGED << wf, timerVars, stepVars, cmdi, status, output, cmds, captured, log, bb >>

\* Line 112 with the VM not registered on the ExitStack: a failing unfs_server
\* leaves the with block without any exit callback being called.
test_target_unfs_server_leak ==
    /\ pc = "unfs_server"
    /\ \E ok \in BOOLEAN :
         /\ res' = Append(res, Call("acquire", "export", ok))
         /\ IF ok THEN /\ stack' = Append(stack, "export")
                       /\ cmdi' = 1
                       /\ pc' = "qemu_run"
                       /\ UNCHANGED failure
                  ELSE /\ pc' = "raised"
                       /\ failure' = EnvError("acquire", "export")
                       /\ UNCHANGED << stack, cmdi >>
    /\ UNCHANGED << wf, timerVars, stepVars, status, output, cmds, captured,
                    log, bb >>

\* Line 112 with the failure of unfs_server caught and ignored: the commands are
\* run in the VM without the export.
test_target_unfs_server_ignored ==
    /\ pc = "unfs_server"
    /\ \E ok \in BOOLEAN :
         /\ res' = Append(res, Call("acquire", "export", ok))
         /\ stack' = IF ok THEN Append(stack, "export") ELSE stack
    /\ cmdi' = 1
    /\ pc' = "qemu_run"
    /\ UNCHANGED << wf, timerVars, stepVars, status, output, cmds, captured,
                    failure, log, bb >>

\* Line 112: nfsport, mountport = s.enter_context(unfs_server(tmpdir)): the export
\* is started and its exit callback registered, or unfs_server raises.
test_target_unfs_server ==
    /\ pc = "unfs_server"
    /\ \E ok \in BOOLEAN :
         /\ res' = Append(res, Call("acquire", "export", ok))
         /\ IF ok THEN /\ stack' = Append(stack, "export")
                       /\ cmdi' = 1
                       /\ pc' = "qemu_run"
                       /\ UNCHANGED failure
                  ELSE /\ pc' = "exit_stack"
                       /\ failure' = EnvError("acquire", "export")
                       /\ UNCHANGED << stack, cmdi >>
    /\ UNCHANGED << wf, timerVars, stepVars, status, output, cmds, captured, log, bb >>

\* The commands the with block runs in the VM, in order (lines 115-197). cmd,
\* kind and comp name the command, what it does (reachability check, mount-point
\* creation, mount, llvm-lit run, result copy) and the component it is for; keeps says whether the
\* captured output is bound to `output` (status, output = ...) or dropped
\* (status, _ = ...); type and msg are the exception raised on a non-zero status
\* (embeds: the message embeds repr(output); names: the component the message
\* names, as it is written there, "" when it names none); errlog is the logger.error line
\* written before the raise ("" when there is none, and then the output is not
\* logged either); post are the logger.info lines that follow on status 0.
RemoteCmds ==
    << [cmd |-> "uname", kind |-> "reach", comp |-> "", keeps |-> FALSE,
        type |-> "AssertionError", msg |-> "QEMU SSH check failed",
        names |-> "",
        embeds |-> FALSE, errlog |-> "", post |-> << >>],
       [cmd |-> "mkdir -p tmpdir", kind |-> "mkdir", comp |-> "", keeps |-> FALSE,
        type |-> "Exception", msg |-> "Failed to setup NFS mount directory on target",
        names |-> "",
        embeds |-> FALSE, errlog |-> "", post |-> << >>],
       [cmd |-> "mount", kind |-> "mount", comp |-> "", keeps |-> TRUE,
        type |-> "Exception", msg |-> "Failed to setup NFS mount on target",
        names |-> "",
        embeds |-> TRUE, errlog |-> "",
        post |-> << "Successfully mounted", "Running llvm-lit directly on target",
                    "  LIT BIN  : lit_bin_lld", "  TESTDIR  : test_dir_lld",
                    "  LOGFILE  : guest_result_lld" >>],
       [cmd |-> "llvm-lit lld", kind |-> "lit", comp |-> "lld", keeps |-> TRUE,
        type |-> "AssertionError",
        msg |-> "llvm-lit failed on target for lld - see log above",
        names |-> "lld",
        embeds |-> FALSE, errlog |-> "llvm-lit tests FAILED on target for lld",
        post |-> << >>],
       [cmd |-> "cp lld", kind |-> "cp", comp |-> "lld", keeps |-> FALSE,
        type |-> "AssertionError",
        msg |-> "Failed to copy LLD lit results back to host",
        names |-> "LLD",
        embeds |-> FALSE, errlog |-> "",
        post |-> << "  LIT BIN  : lit_bin_llvm", "  TESTDIR  : test_dir_llvm",
                    "  LOGFILE  : guest_result_llvm" >>],
       [cmd |-> "llvm-lit llvm", kind |-> "lit", comp |-> "llvm", keeps |-> TRUE,
        type |-> "AssertionError",
        msg |-> "llvm-lit failed on target for llvm - see log above",
        names |-> "llvm",
        embeds |-> FALSE, errlog |-> "llvm-lit tests FAILED on target for llvm",
        post |-> << >>],
       [cmd |-> "cp llvm", kind |-> "cp", comp |-> "llvm", keeps |-> FALSE,
        type |-> "AssertionError",
        msg |-> "Failed to copy llvm lit results back to host",
        names |-> "llvm",
        embeds |-> FALSE, errlog |-> "",
        post |-> << "  LIT BIN  : lit_bin_clang", "  TESTDIR  : test_dir_clang",
                    "  LOGFILE  : guest_result_clang" >>],
       [cmd |-> "llvm-lit clang", kind |-> "lit", comp |-> "clang", keeps |-> TRUE,
        type |-> "AssertionError",
        msg |-> "llvm-lit failed on target for clang - see log above",
        names |-> "clang",
        embeds |-> FALSE, errlog |-> "llvm-lit tests FAILED on target for clang",
        post |-> << >>],
       [cmd |-> "cp clang", kind |-> "cp", comp |-> "clang", keeps |-> FALSE,
        type |-> "AssertionError",
        msg |-> "Failed to copy LLVM lit results back to host",
        names |-> "LLVM",
        embeds |-> FALSE, errlog |-> "",
        post |-> << "llvm-lit tests completed successfully on target" >>] >>

LastCmd == Len(RemoteCmds)

\* status, output = qemu.run(cmd) (lines 115, 119, 127, 159, 165, 174, 180, 189,
\* 195): the command is issued and returns an exit status and its output.
test_target_qemu_run ==
    /\ pc = "qemu_run"
    /\ \E st \in Statuses, out \in Outputs :
         /\ cmds' = Append(cmds, [cmd |-> RemoteCmds[cmdi].cmd, status |-> st])
         /\ captured' = out
         /\ status' = st
         /\ output' = IF RemoteCmds[cmdi].keeps THEN out ELSE output
    /\ pc' = "qemu_check"
    /\ UNCHANGED << wf, timerVars, stepVars, stack, cmdi, res, failure, log, bb >>

\* The logger.info lines after command k returned 0; line 200 logs `output` too.
PostLines(k) ==
    [i \in 1..Len(RemoteCmds[k].post) |-> Info(RemoteCmds[k].post[i])]
    \o (IF k = LastCmd THEN << LogLine("info", "{output}", << output >>, -1) >>
                       ELSE << >>)

\* The test written as status == 1 instead of status != 0: any other status
\* passes for success.
test_target_check_status_only1 ==
    /\ pc = "qemu_check"
    /\ IF status # 1
         THEN /\ log' = log \o PostLines(cmdi)
              /\ IF cmdi < LastCmd
                   THEN cmdi' = cmdi + 1 /\ pc' = "qemu_run"
                   ELSE cmdi' = cmdi     /\ pc' = "exit_stack"
         ELSE /\ pc' = IF RemoteCmds[cmdi].errlog # "" THEN "qemu_errlog"
                                                      ELSE "qemu_raise"
              /\ UNCHANGED << log, cmdi >>
    /\ UNCHANGED << wf, timerVars, stepVars, stack, status, output, cmds, captured,
                    res, failure, bb >>

\* The status of a result copy left untested (lines 166-167, 181-182, 196-197
\* missing): the workflow goes on whatever cp returned.
test_target_check_status_nocp ==
    /\ pc = "qemu_check"
    /\ IF status = 0 \/ RemoteCmds[cmdi].kind = "cp"
         THEN /\ log' = log \o PostLines(cmdi)
              /\ IF cmdi < LastCmd
                   THEN cmdi' = cmdi + 1 /\ pc' = "qemu_run"
                   ELSE cmdi' = cmdi     /\ pc' = "exit_stack"
         ELSE /\ pc' = IF RemoteCmds[cmdi].errlog # "" THEN "qemu_errlog"
                                                      ELSE "qemu_raise"
              /\ UNCHANGED << log, cmdi >>
    /\ UNCHANGED << wf, timerVars, stepVars, stack, status, output, cmds, captured,
                    res, failure, bb >>

\* A command re-issued when it returned a non-zero status.
test_target_check_status_retry ==
    /\ pc = "qemu_check"
    /\ IF status = 0
         THEN /\ log' = log \o PostLines(cmdi)
              /\ IF cmdi < LastCmd
                   THEN cmdi' = cmdi + 1 /\ pc' = "qemu_run"
                   ELSE cmdi' = cmdi     /\ pc' = "exit_stack"
         ELSE /\ pc' = IF Len(cmds) <= cmdi THEN "qemu_run"
                       ELSE IF RemoteCmds[cmdi].errlog # "" THEN "qemu_errlog"
                                                            ELSE "qemu_raise"
              /\ UNCHANGED << log, cmdi >>
    /\ UNCHANGED << wf, timerVars, stepVars, stack, status, output, cmds, captured,
                    res, failure, bb >>

\* The test of status after each qemu.run (lines 116, 120, 128, 160, 166, 175,
\* 181, 190, 196): on 0 the lines up to the next qemu.run follow, or the with
\* block ends; otherwise the failure branch is taken.
test_target_check_status ==
    /\ pc = "qemu_check"
    /\ IF status = 0
         THEN /\ log' = log \o PostLines(cmdi)
              /\ IF cmdi < LastCmd
                   THEN cmdi' = cmdi + 1 /\ pc' = "qemu_run"
                   ELSE cmdi' = cmdi     /\ pc' = "exit_stack"
         ELSE /\ pc' = IF RemoteCmds[cmdi].errlog # "" THEN "qemu_errlog"
                                                      ELSE "qemu_raise"
              /\ UNCHANGED << log, cmdi >>
    /\ UNCHANGED << wf, timerVars, stepVars, stack, status, output, cmds, captured, res,
                    failure, bb >>

\* A failed llvm-lit run logged but not raised (lines 163, 178, 193 missing): the
\* result copy follows.
test_target_log_failure_noraise ==
    /\ pc = "qemu_errlog"
    /\ log' = log \o << LogLine("error", RemoteCmds[cmdi].errlog, << >>, -1),
                        LogLine("error", "{output}", << output >>, -1) >>
    /\ cmdi' = cmdi + 1
    /\ pc' = "qemu_run"
    /\ UNCHANGED << wf, timerVars, stepVars, stack, status, output, cmds, captured,
                    res, failure, bb >>

\* Lines 161-162, 176-177, 191-192: the two logger.error lines of a failed
\* llvm-lit run, the second being the captured output.
test_target_log_failure ==
    /\ pc = "qemu_errlog"
    /\ log' = log \o << LogLine("error", RemoteCmds[cmdi].errlog, << >>, -1),
                        LogLine("error", "{output}", << output >>, -1) >>
    /\ pc' = "qemu_raise"
    /\ UNCHANGED << wf, timerVars, stepVars, scopeVars, failure, bb >>

\* The exception raised with the fixed message alone, the output left out.
RemoteFailure_plain(k) ==
    [type |-> RemoteCmds[k].type, msg |-> << RemoteCmds[k].msg >>]

\* The exception raised for command k when its status is not 0.
RemoteFailure(k) ==
    [type |-> RemoteCmds[k].type,
     msg  |-> IF RemoteCmds[k].embeds
                THEN << RemoteCmds[k].msg, " (", output, ")" >>
                ELSE << RemoteCmds[k].msg >>]

\* The raise without the with statement around it: it reaches the caller with no
\* exit callback called.
test_target_raise_leak ==
    /\ pc = "qemu_raise"
    /\ failure' = RemoteFailure(cmdi)
    /\ pc' = "raised"
    /\ UNCHANGED << wf, timerVars, stepVars, scopeVars, log, bb >>

\* Lines 116, 121, 129, 163, 167, 178, 182, 193, 197: the raise; it leaves the
\* with block.
test_target_raise ==
    /\ pc = "qemu_raise"
    /\ failure' = RemoteFailure(cmdi)
    /\ pc' = "exit_stack"
    /\ UNCHANGED << wf, timerVars, stepVars, scopeVars, log, bb >>

\* Teardown in acquisition order: the callbacks called first-registered first.
ExitStack_exit_callback_fifo ==
    /\ pc = "exit_stack"
    /\ stack # << >>
    /\ \E ok \in BOOLEAN :
         /\ res' = Append(res, Call("release", Head(stack), ok))
         /\ failure' = IF ok THEN failure
                             ELSE EnvError("release", Head(stack))
    /\ stack' = Tail(stack)
    /\ UNCHANGED << wf, pc, timerVars, stepVars, cmdi, status, output, cmds,
                    captured, log, bb >>

\* Teardown that stops at the first exit callback that raises: the callbacks
\* registered before it are not called.
ExitStack_exit_callback_abort ==
    /\ pc = "exit_stack"
    /\ stack # << >>
    /\ \E ok \in BOOLEAN :
         /\ res' = Append(res, Call("release", stack[Len(stack)], ok))
         /\ failure' = IF ok THEN failure
                             ELSE EnvError("release", stack[Len(stack)])
         /\ stack' = IF ok THEN SubSeq(stack, 1, Len(stack) - 1) ELSE << >>
    /\ UNCHANGED << wf, pc, timerVars, stepVars, cmdi, status, output, cmds,
                    captured, log, bb >>

\* Line 109, leaving the with block: ExitStack.__exit__ calls the registered exit
\* callbacks last-registered first. A callback that raises replaces the
\* exception in flight, and the remaining callbacks are still called.
ExitStack_exit_callback ==
    /\ pc = "exit_stack"
    /\ stack # << >>
    /\ \E ok \in BOOLEAN :
         /\ res' = Append(res, Call("release", stack[Len(stack)], ok))
         /\ failure' = IF ok THEN failure
                             ELSE EnvError("release", stack[Len(stack)])
    /\ stack' = SubSeq(stack, 1, Len(stack) - 1)
    /\ UNCHANGED << wf, pc, timerVars, stepVars, cmdi, status, output, cmds, captured,
                    log, bb >>

\* The with statement swallowing the exception in flight (an __exit__ that
\* returns True): line 202 is reached whatever happened inside.
ExitStack_exit_done_swallow ==
    /\ pc = "exit_stack"
    /\ stack = << >>
    /\ pc' = "final_assert"
    /\ UNCHANGED << wf, timerVars, stepVars, scopeVars, failure, log, bb >>

\* Line 109, leaving the with block with every callback called: the exception in
\* flight, if any, is raised to the caller of the test method.
ExitStack_exit_done ==
    /\ pc = "exit_stack"
    /\ stack = << >>
    /\ pc' = IF failure = NoFailure THEN "final_assert" ELSE "raised"
    /\ UNCHANGED << wf, timerVars, stepVars, scopeVars, failure, log, bb >>

\* Line 202: self.assertTrue(True, ...), after the with block.
test_target_end ==
    /\ pc = "final_assert"
    /\ pc' = "done"
    /\ UNCHANGED << wf, timerVars, stepVars, scopeVars, failure, log, bb >>

TargetNext ==
    \/ test_target_begin
    \/ run_target_build_begin
    \/ run_target_build_bitbake
    \/ run_target_build_except
    \/ run_target_build_finally
    \/ run_target_build_return
    \/ test_target_builds_done
    \/ test_target_get_bb_var
    \/ test_target_runqemu
    \/ test_target_unfs_server
    \/ test_target_qemu_run
    \/ test_target_check_status
    \/ test_target_log_failure
    \/ test_target_raise
    \/ ExitStack_exit_callback
    \/ ExitStack_exit_done
    \/ test_target_end

Next == NativeNext \/ TargetNext

Spec == Init /\ [][Next]_vars

\* ------------------------------------------------------------ observations
\* The workflow has ended: with overall success, or with `failure` raised to the
\* caller of the test method.
Succeeded == pc = "done"
Failed    == pc = "raised"
Ended     == Succeeded \/ Failed

\* The calls of kind op on resource what, in order.
Calls(op, what) == SelectSeq(res, LAMBDA c : c.op = op /\ c.what = what)
Acquired(what) == \E i \in 1..Len(res) : res[i] = Call("acquire", what, TRUE)
Released(what) == Calls("release", what) # << >>
\* The resources released, in the order of their release.
Releases ==
    LET r == SelectSeq(res, LAMBDA c : c.op = "release")
    IN  [i \in 1..Len(r) |-> r[i].what]

\* ------------------------------------------------------------------ claims

\* C1: in test_native_llvm_clang_lld_lit_suites the three checks are invoked in
\* the order llvm-native/check_llvm, clang-native/check_clang,
\* lld-native/check_lld; once one of them has failed no further bitbake
\* invocation is issued, and the workflow can only end in a failure, an
\* AssertionError whose message names the recipe and the task of that step.
C1_NativeStopsAtFirstFailure ==
    wf = "native" =>
      /\ Len(bb) <= Len(NativeSteps)
      /\ \A i \in 1..Len(bb) :
           /\ bb[i].cmd = << NativeSteps[i].recipe, "-c", NativeSteps[i].task >>
           /\ ~bb[i].ok =>
                /\ Len(bb) = i
                /\ ~Succeeded
                /\ Failed => /\ failure.type = "AssertionError"
                             /\ NativeSteps[i].recipe \in Range(failure.msg)
                             /\ NativeSteps[i].task \in Range(failure.msg)

\* C1 witness: the second native check failed after the first passed, and the
\* workflow has ended.
C1_Witness ==
    /\ wf = "native" /\ Failed
    /\ Len(bb) = 2 /\ bb[1].ok /\ ~bb[2].ok

\* C2: in test_target_llvm_clang_lld_builds, once a full build has failed no
\* later build is started, get_bb_var is never called, neither the VM nor the
\* export is ever acquired and no command is ever run in the VM.
C2_BuildFailureStopsEverything ==
    wf = "target" =>
      /\ Len(bb) <= Len(TargetBuilds)
      /\ \A i \in 1..Len(bb) :
           /\ bb[i].cmd = << TargetBuilds[i].recipe >>
           /\ ~bb[i].ok =>
                /\ Len(bb) = i
                /\ res = << >> /\ stack = << >> /\ cmds = << >>
                /\ ~Succeeded

\* C2 witness: the second of the four builds failed and the workflow has ended.
C2_Witness ==
    /\ wf = "target" /\ Failed
    /\ Len(bb) = 2 /\ bb[1].ok /\ ~bb[2].ok

\* C3: when the workflow has ended, whatever happened inside the with block, the
\* VM and the export that were acquired have both been released; in particular
\* when it ended in a failure raised for a command run in the VM.
C3_ReleasedBeforeFailureReachesCaller ==
    Ended => /\ stack = << >>
             /\ \A r \in {"vm", "export"} : Acquired(r) => Released(r)

\* C3 witness: both resources were acquired, a command in the VM returned a
\* non-zero status, and the failure has reached the caller, both released.
C3_Witness ==
    /\ Failed /\ Acquired("vm") /\ Acquired("export")
    /\ cmds # << >> /\ cmds[Len(cmds)].status # 0
    /\ Released("vm") /\ Released("export")

\* C4: the export is acquired only after the VM was; when the acquisition of the
\* export has failed, no command is run in the VM, the export is never released
\* and, by the time the failure reaches the caller, the VM was released exactly
\* once. The VM is never released twice.
C4_ExportAcquisitionFailure ==
    /\ Len(Calls("release", "vm")) <= 1
    /\ \A i \in 1..Len(res) :
         (res[i].op = "acquire" /\ res[i].what = "export") =>
           /\ \E j \in 1..(i - 1) : res[j] = Call("acquire", "vm", TRUE)
           /\ \A j \in 1..(i - 1) : res[j].op # "release"
    /\ Call("acquire", "export", FALSE) \in Range(res) =>
         /\ cmds = << >>
         /\ ~Released("export")
         /\ ~Succeeded
         /\ Failed => Len(Calls("release", "vm")) = 1

\* C4 witness: the VM was acquired, the acquisition of the export failed, and
\* the failure has reached the caller.
C4_Witness ==
    /\ Failed
    /\ Acquired("vm") /\ Call("acquire", "export", FALSE) \in Range(res)
    /\ Len(Calls("release", "vm")) = 1

\* C5: whenever the with block has been left with both the VM and the export
\* acquired, on the success path and on every failure path, each of them was
\* released exactly once, the export first and the VM second.
C5_ReverseOrderRelease ==
    /\ Len(Releases) <= 2
    /\ (Acquired("vm") /\ Acquired("export") /\ (Ended \/ pc = "final_assert"))
         => Releases = << "export", "vm" >>

\* C5 witness: every phase succeeded and both resources were released.
C5_Witness ==
    /\ Succeeded /\ wf = "target"
    /\ Releases = << "export", "vm" >>

\* The index in RemoteCmds of the command of the given kind for component comp.
CmdIndex(kind, comp) ==
    CHOOSE k \in 1..LastCmd : RemoteCmds[k].kind = kind /\ RemoteCmds[k].comp = comp
Components == {"lld", "llvm", "clang"}

\* C6: the first command run in the VM is the reachability check (uname); when
\* it has returned a non-zero status no other command is ever issued to the VM
\* (no mkdir, no mount, no llvm-lit run, no copy) and the workflow can only end
\* in a failure.
C6_UnreachableVmStopsCommands ==
    cmds # << >> =>
      /\ cmds[1].cmd = RemoteCmds[CmdIndex("reach", "")].cmd
      /\ cmds[1].status # 0 => /\ Len(cmds) = 1
                               /\ ~Succeeded /\ pc # "final_assert"

\* C6 witness: uname returned a non-zero status and the workflow has ended.
C6_Witness ==
    /\ Failed /\ Len(cmds) = 1
    /\ cmds[1].cmd = "uname" /\ cmds[1].status # 0

\* C7: for each of lld, llvm and clang, the copy of the result file is issued
\* only right after that component's llvm-lit run, and only when that run
\* returned 0; after a non-zero llvm-lit status the component's copy is never
\* issued.
C7_CopyOnlyAfterPassingRun ==
    \A c \in Components :
      \A i \in 1..Len(cmds) :
        /\ cmds[i].cmd = RemoteCmds[CmdIndex("cp", c)].cmd =>
             /\ i > 1
             /\ cmds[i - 1].cmd = RemoteCmds[CmdIndex("lit", c)].cmd
             /\ cmds[i - 1].status = 0
        /\ (cmds[i].cmd = RemoteCmds[CmdIndex("lit", c)].cmd /\ cmds[i].status # 0) =>
             \A j \in 1..Len(cmds) : cmds[j].cmd # RemoteCmds[CmdIndex("cp", c)].cmd

\* C7 witness: the lld run passed and its result was copied, the llvm run
\* returned a non-zero status, and the workflow has ended.
C7_Witness ==
    /\ Failed /\ Len(cmds) = 6
    /\ cmds[4].status = 0 /\ cmds[5].cmd = "cp lld"
    /\ cmds[6].cmd = "llvm-lit llvm" /\ cmds[6].status # 0

\* C8: once the llvm-lit run or the result copy of a component has returned a
\* non-zero status, no further command is issued to the VM and the workflow can
\* only end in a failure; so when the lld run returns 0 and its copy does not,
\* neither llvm nor clang is attempted.
C8_ComponentsGated ==
    \A i \in 1..Len(cmds) :
      (cmds[i].status # 0 /\ RemoteCmds[i].kind \in {"lit", "cp"}) =>
        /\ cmds[i].cmd = RemoteCmds[i].cmd
        /\ Len(cmds) = i
        /\ ~Succeeded /\ pc # "final_assert"

\* C8 witness: the lld run returned 0, its copy returned a non-zero status, and
\* the workflow has ended with five commands issued.
C8_Witness ==
    /\ Failed /\ Len(cmds) = 5
    /\ cmds[4].cmd = "llvm-lit lld" /\ cmds[4].status = 0
    /\ cmds[5].cmd = "cp lld" /\ cmds[5].status # 0

\* C9 as stated: when the three native steps succeeded, the total reported in the
\* summary is the sum of the three reported step durations.
C9_TotalIsSumOfSteps ==
    (wf = "native" /\ Succeeded) => total_duration = SumSeq(durations)

\* C9 as amended: when the three native steps succeeded, the total reported in
\* the summary is the whole seconds of the wall-clock time from total_start to
\* the instant read after the last step, and it is never less than the sum of
\* the three reported step durations.
C9_TotalIsWallClock ==
    (wf = "native" /\ Succeeded) =>
      /\ Len(durations) = 3
      /\ total_duration * TicksPerSecond <= now - total_start
      /\ now - total_start < (total_duration + 1) * TicksPerSecond
      /\ total_duration >= SumSeq(durations)

\* C9 witness: the three native steps succeeded, one of them took a second, and
\* the summary reports a total of one second.
C9_Witness ==
    /\ wf = "native" /\ Succeeded
    /\ SumSeq(durations) = 1 /\ total_duration = 1

\* C10: whenever a command run in the VM has returned a non-zero status and the
\* resulting failure is on its way to the caller, the output captured from that
\* command has been written to the log.
C10_OutputLoggedBeforeFailure ==
    (pc \in {"exit_stack", "raised"} /\ cmds # << >> /\ cmds[Len(cmds)].status # 0) =>
      \E j \in 1..Len(log) : captured \in Range(log[j].args)

\* The timed step that is being run or was run last has failed / has passed.
StepFailed == bb # << >> /\ ~bb[Len(bb)].ok
\* The positions inside a timed step after bitbake has raised or returned.
AfterBitbake == {"native_except", "native_finally", "native_return",
                 "build_except", "build_finally", "build_return"}

\* C11: in run_native_check_task and run_target_build, when bitbake has failed,
\* the error line carrying the underlying exception is logged first, then the
\* elapsed time is computed and the FAILED status line carrying it is logged,
\* and only then is the AssertionError raised; no duration is returned for the
\* failed step. When bitbake has succeeded the PASSED status line carrying the
\* duration is logged and that duration is returned to the caller.
C11_TimedStepOrder ==
    /\ pc \in AfterBitbake => failure = NoFailure
    /\ (StepFailed /\ pc \in {"native_return", "build_return", "raised"}) =>
         /\ Len(log) >= 2
         /\ log[Len(log) - 1].level = "error"
         /\ exc \in Causes /\ exc \in Range(log[Len(log) - 1].args)
         /\ log[Len(log)].level = "info"
         /\ "FAILED" \in Range(log[Len(log)].args)
         /\ log[Len(log)].secs = duration
         /\ Len(durations) = Len(bb) - 1
    /\ (StepFailed /\ pc = "raised") => failure.type = "AssertionError"
    /\ (~StepFailed /\ pc \in {"native_return", "build_return"}) =>
         /\ "PASSED" \in Range(log[Len(log)].args)
         /\ log[Len(log)].secs = duration
    /\ (~StepFailed /\ pc \in {"native_step", "build_step", "native_summary",
                               "build_summary"}) =>
         /\ Len(durations) = Len(bb)
         /\ bb # << >> => /\ "PASSED" \in Range(log[Len(log)].args)
                          /\ log[Len(log)].secs = durations[Len(durations)]

\* C11 witness: the second native check has failed after a second of running and
\* the AssertionError has been raised, with only the first duration returned.
C11_Witness ==
    /\ wf = "native" /\ pc = "raised" /\ StepFailed
    /\ Len(bb) = 2 /\ Len(durations) = 1 /\ duration = 1

\* A component name as a failure message writes it, in lower case.
CaseFold(name) ==
    CASE name = "LLD"   -> "lld"
      [] name = "LLVM"  -> "llvm"
      [] name = "CLANG" -> "clang"
      [] OTHER          -> name

\* C12: every failure a workflow ends with for a failed step is an
\* AssertionError that names the step: for a failed native check or build the
\* message names its recipe, and for a failed command in the VM the failure is
\* an AssertionError whose message, for the llvm-lit run and the result copy of
\* lld, llvm and clang, names that command's own component.
C12_FailureNamesItsStep ==
    Failed =>
      /\ StepFailed =>
           /\ failure.type = "AssertionError"
           /\ bb[Len(bb)].cmd[1] \in Range(failure.msg)
      /\ \A k \in 1..LastCmd :
           failure.msg[1] = RemoteCmds[k].msg =>
             /\ failure.type = "AssertionError"
             /\ RemoteCmds[k].comp # "" =>
                  CaseFold(RemoteCmds[k].names) = RemoteCmds[k].comp

\* C12, the part about the component names alone: the failure of a result copy
\* names the component whose result was being copied.
C12_CopyFailureNamesItsComponent ==
    \A k \in 1..LastCmd :
      (Failed /\ failure.msg[1] = RemoteCmds[k].msg /\ RemoteCmds[k].kind = "cp") =>
        CaseFold(RemoteCmds[k].names) = RemoteCmds[k].comp

\* Every operation asked of the environment so far has succeeded.
AllSucceeded ==
    /\ \A i \in 1..Len(bb) : bb[i].ok
    /\ \A i \in 1..Len(cmds) : cmds[i].status = 0
    /\ \A i \in 1..Len(res) : res[i].ok

\* C13: a workflow reaches its final assertTrue, and so signals overall success,
\* only with no exception in flight and every one of its steps run and
\* succeeded; the native summary table is logged only after the three checks
\* passed; the target workflow signals success only after the with block was
\* left and the export and then the VM were released.
C13_SuccessOnlyIfAllSucceeded ==
    /\ (Succeeded \/ pc = "final_assert") =>
         /\ failure = NoFailure
         /\ AllSucceeded
         /\ wf = "native" => Len(bb) = Len(NativeSteps)
         /\ wf = "target" => /\ Len(bb) = Len(TargetBuilds)
                             /\ Len(cmds) = LastCmd
                             /\ stack = << >>
                             /\ Releases = << "export", "vm" >>
    /\ Info("ALL LIT TEST SUITES COMPLETED SUCCESSFULLY") \in Range(log) =>
         /\ Len(bb) = Len(NativeSteps)
         /\ \A i \in 1..Len(bb) : bb[i].ok
    /\ (Succeeded /\ wf = "native") =>
         Info("ALL LIT TEST SUITES COMPLETED SUCCESSFULLY") \in Range(log)
    /\ Failed => failure # NoFailure

\* C13 witness: the target workflow has signalled success, with all nine
\* commands run and both resources released.
C13_Witness ==
    /\ Succeeded /\ wf = "target"
    /\ Len(cmds) = LastCmd /\ Releases = << "export", "vm" >>

\* The end instant of the timed step has been taken and the step not yet left.
StepTimed == pc \in {"native_return", "build_return"}

\* C14 as stated: in a timed step nothing is logged between taking start_time
\* and taking the end instant, whether bitbake succeeded or failed.
C14_NoLoggingWhileTimed ==
    StepTimed => log_at_end = log_at_start

\* C14 as amended: in a timed step nothing is logged between taking start_time
\* and taking the end instant when bitbake succeeded; when bitbake failed
\* exactly one line is logged between the two instants, the error line that
\* carries the underlying exception.
C14_OnlyTheErrorLineWhileTimed ==
    StepTimed =>
      IF passed
        THEN log_at_end = log_at_start
        ELSE /\ log_at_end = log_at_start + 1
             /\ log[log_at_end].level = "error"
             /\ exc \in Range(log[log_at_end].args)

\* C14 witness: a build has failed and its end instant was taken with the error
\* line logged since start_time.
C14_Witness ==
    /\ pc = "build_return" /\ ~passed
    /\ log_at_end = log_at_start + 1

\* C14 witness of the success path: a native check has passed with nothing
\* logged between the two instants.
C14_WitnessPassed ==
    /\ pc = "native_return" /\ passed
    /\ log_at_end = log_at_start

\* Both resources are acquired and live: registered on the ExitStack, with no
\* exit callback called yet.
ScopeOpen ==
    /\ Acquired("vm") /\ Acquired("export")
    /\ stack = << "vm", "export" >>
    /\ Releases = << >>

\* C15: every step that issues a command to the VM is taken with both the VM and
\* the export acquired and neither released, and leaves them so: no command is
\* issued before the export is acquired nor once the teardown has begun; and
\* wherever a command is about to be issued or has just returned, both are live.
C15_CommandsOnlyInOpenScope ==
    /\ [][Len(cmds') > Len(cmds) => (ScopeOpen /\ ScopeOpen')]_vars
    /\ [](pc \in {"qemu_run", "qemu_check", "qemu_errlog", "qemu_raise"} => ScopeOpen)
    /\ [](~ScopeOpen /\ Releases # << >> => pc \in {"exit_stack", "final_assert",
                                                     "done", "raised"})

\* C15 witness: the mount command has just returned, with both resources live.
C15_Witness ==
    /\ pc = "qemu_check" /\ Len(cmds) = 3
    /\ ScopeOpen

\* C16: when the mount-point creation (mkdir) has returned a non-zero status the
\* mount command is never issued, and when the mount command has returned a
\* non-zero status no llvm-lit run (nor any other command) is ever issued; the
\* failure raised for a failed mount command carries the output captured from
\* that mount command in its message.
C16_MountStepGated ==
    /\ \A i \in 1..Len(cmds) :
         (cmds[i].status # 0 /\ RemoteCmds[i].kind \in {"mkdir", "mount"}) =>
           /\ cmds[i].cmd = RemoteCmds[i].cmd
           /\ Len(cmds) = i
           /\ ~Succeeded /\ pc # "final_assert"
    /\ (failure # NoFailure
          /\ failure.msg[1] = RemoteCmds[CmdIndex("mount", "")].msg) =>
         /\ cmds[Len(cmds)].cmd = RemoteCmds[CmdIndex("mount", "")].cmd
         /\ cmds[Len(cmds)].status # 0
         /\ captured \in Range(failure.msg)

\* C16 witness: the mount command returned a non-zero status and the failure
\* that reached the caller carries its output.
C16_Witness ==
    /\ Failed /\ Len(cmds) = 3
    /\ cmds[3].cmd = "mount" /\ cmds[3].status # 0
    /\ captured \in Range(failure.msg)

\* No element of the sequence occurs twice.
NoRepeat(s) == \A i, j \in 1..Len(s) : s[i] = s[j] => i = j

\* C17: in a run of either workflow no operation is retried: each bitbake
\* invocation, each of get_bb_var, runqemu and unfs_server, each release and each
\* of the nine commands in the VM is issued at most once, whatever the outcomes.
C17_NoRetry ==
    /\ NoRepeat([i \in 1..Len(bb) |-> bb[i].cmd])
    /\ NoRepeat([i \in 1..Len(cmds) |-> cmds[i].cmd])
    /\ NoRepeat([i \in 1..Len(res) |-> << res[i].op, res[i].what >>])
    /\ Len(cmds) <= LastCmd
    /\ Len(bb) <= Len(TargetBuilds)

\* C17 witness: the clang llvm-lit run, the eighth command, has failed and the
\* workflow has ended with eight commands issued.
C17_Witness ==
    /\ Failed /\ Len(cmds) = 8 /\ cmds[8].status # 0
    /\ Len(bb) = 4 /\ Len(res) = 5

\* ---------------------------------------------------------------- fairness
\* The test method is run by one thread that is never starved, and every call
\* it makes on the environment returns or raises: whenever a step can be taken,
\* one is taken.
FairSpec == Spec /\ WF_vars(Next)

\* The phase of test_target_llvm_clang_lld_builds the control is in: 1 BUILDING,
\* 2 RESOURCE_SETUP, 3 MOUNTING, 4 PER-COMPONENT TESTING, 5 EXIT (the teardown,
\* the final assertion and the two ways the method ends).
Phase ==
    CASE pc \in {"start", "build_step", "build_bitbake", "build_except",
                 "build_finally", "build_return", "build_summary",
                 "native_step", "native_bitbake", "native_except",
                 "native_finally", "native_return", "native_summary"} -> 1
      [] pc \in {"get_bb_var", "runqemu", "unfs_server"} -> 2
      [] pc \in {"qemu_run", "qemu_check", "qemu_errlog", "qemu_raise"} ->
           IF RemoteCmds[cmdi].kind \in {"reach", "mkdir", "mount"} THEN 3 ELSE 4
      [] OTHER -> 5

\* Nothing is left acquired.
NothingLive ==
    /\ stack = << >>
    /\ \A r \in {"vm", "export"} : Acquired(r) => Released(r)

\* C18: the target workflow goes through BUILDING, RESOURCE_SETUP, MOUNTING,
\* PER-COMPONENT TESTING and EXIT in this order: the phase never decreases, so no
\* phase is entered again after it was left; and, every call on the environment
\* returning or raising, every run eventually ends, in overall success or in a
\* failure, with no resource left acquired.
C18_LinearAndTerminating ==
    /\ [][Phase' >= Phase]_vars
    /\ [](Ended => NothingLive)
    /\ <>(Ended /\ NothingLive)

\* C18 witness: the run is in PER-COMPONENT TESTING, with the mount done.
C18_Witness ==
    /\ wf = "target" /\ Phase = 4
    /\ Len(cmds) = 3 /\ cmds[3].status = 0

\* C19: when the release of the export has raised while the with block is being
\* left, the release of the VM is still attempted, exactly once, and the
\* workflow ends in a failure, never in overall success; likewise a release of
\* the VM that raises does not keep the export from having been released.
C19_ReleaseFailureSkipsNothing ==
    /\ (Call("release", "export", FALSE) \in Range(res)
          /\ pc \in {"final_assert", "done", "raised"}) =>
         /\ Len(Calls("release", "vm")) = 1
         /\ Failed
    /\ Call("release", "export", FALSE) \in Range(res) => failure # NoFailure
    /\ (Acquired("export") /\ Calls("release", "vm") # << >>) =>
         Len(Calls("release", "export")) = 1
    /\ (\E i \in 1..Len(res) : res[i].op = "release" /\ ~res[i].ok) => ~Succeeded

\* C19 witness: every command in the VM succeeded, the release of the export
\* raised, the VM was released all the same, and the workflow ended in failure.
C19_Witness ==
    /\ Failed /\ Len(cmds) = LastCmd /\ cmds[LastCmd].status = 0
    /\ Call("release", "export", FALSE) \in Range(res)
    /\ Len(Calls("release", "vm")) = 1
====
